---- MODULE Spec2Model ----
(***************************************************************************)
(* Model of the record pipeline of src/src/main.rs (run_record and         *)
(* PngVideoEncoder): the event-loop closure that issues take_snapshot      *)
(* requests, the snapshot callbacks that send (png_data, timestamp_ns) on  *)
(* the mpsc channel, and the encoder thread that receives them and drives  *)
(* the GStreamer pipeline.                                                 *)
(*                                                                         *)
(* Time is counted in whole milliseconds.  `since` is                      *)
(* now.duration_since(last_frame_time), saturated at SinceCap, which is    *)
(* above every frame_duration of FpsSet, so the comparison of line 253 is  *)
(* exact.  The replies of the GStreamer backend (set_state, push_buffer,   *)
(* end_of_stream, the bus) are external and are chosen nondeterministically*)
(* from the outcomes the code distinguishes.  take_snapshot itself is      *)
(* taken to accept every request (its Result is unwrapped at line 271);    *)
(* the blocking wait of finish on the bus is one step with the call.       *)
(* `gap` records, at each issuance, the time since the previous one (since *)
(* program start for the first); the program does not store it.            *)
(***************************************************************************)
EXTENDS Integers, Sequences, FiniteSets

VARIABLES fps, active_webview, count, since, inflight, chan, exited,
          encPc, pipeline, appsrc, calls,
          gap,
          cap_elapsed, cap_pending, cap_done, snapshot_taken, cap_status

\* The state of run_capture (capture mode).
capvars == <<cap_elapsed, cap_pending, cap_done, snapshot_taken, cap_status>>

\* The state of run_record (record mode) and of its encoder.
recvars == <<fps, active_webview, count, since, inflight, chan, exited,
             encPc, pipeline, appsrc, calls, gap>>

vars == <<fps, active_webview, count, since, inflight, chan, exited,
          encPc, pipeline, appsrc, calls, gap, capvars>>

\* ---------------------------------------------------------------- bounds
\* The literal 400 of `if count == 400` (main.rs:279), scaled down.
EndCount == 4
\* No request is issued once count has reached MaxCount.
MaxCount == EndCount + 2
\* Requests the render host lets be outstanding at once: the event loop does
\* not come round to a further due request while MaxInflight callbacks are
\* pending.
MaxInflight == 2
\* Saturation of `since`, in ms.
SinceCap == 34
\* Number of method calls a client of PngVideoEncoder makes (EncoderSpec).
MaxCalls == 4

\* Requests outstanding in the initial states of OrdinalSpec.
MaxOrdinal == 3
\* Snapshot requests of capture mode explored.
MaxSnapshots == 3
\* Saturation of cap_elapsed, in ms.
CaptureCap == 5001

\* Values of the --fps option explored (u16, main.rs:76).
FpsSet == {30, 2000}
\* Milliseconds that may pass between two iterations of the event loop.
TimeSteps == {0, 33}
\* The whole range of the --fps option that does not divide by zero, and
\* the values explored with more than one request outstanding (OrdinalSpec).
FpsRange == 1..65535
FpsEdge == {2, 30, 1000, 1001, 65535}
\* Milliseconds that may pass between two iterations in capture mode.
CaptureSteps == {0, 2499, 2500}
\* Timestamps a client of PngVideoEncoder pushes (EncoderSpec).
PtsSet == {0, 33333333, 66666666}

Events == {"CloseRequested", "RedrawRequested", "Other"}
SnapshotResults == {"Ok", "Err"}
StateChangeResults == {"Ok", "Err"}
FlowResults == {"Ok", "Flushing", "Eos", "Error"}
BusMessages == {"Eos", "Error"}
EosResults == {"Ok", "Err"}

Min(a, b) == IF a <= b THEN a ELSE b

\* ------------------------------------------------------------ run_record
\* Duration::from_millis(1000 / fps as u64)
frame_duration(f) == 1000 \div f

\* Variant: ordinals counted from 0.
timestamp_ns_from_zero(c, f) == (c - 1) * (1000000000 \div f)

\* count as u64 * (1_000_000_000 / fps as u64)
timestamp_ns(c, f) == c * (1000000000 \div f)

\* Vec::new() is <<>>; the image the host renders for the request of
\* ordinal c is the one-byte vector <<c>>.
is_empty(v) == v = <<>>

\* The message of a snapshot callback (lines 257-269) for the closure that
\* captured count = c.
FrameMsg(result, c, f) ==
    [png_data |-> IF result = "Ok" THEN <<c>> ELSE <<>>,
     timestamp |-> timestamp_ns(c, f)]

\* tx.send((Vec::new(), 0u64))
EndMsg == [png_data |-> <<>>, timestamp |-> 0]

\* The receiver lives as long as the encoder thread's closure runs.
RxAlive == encPc \in {"start", "recv"}

\* mpsc send: enqueues unless the receiver has been dropped (`let _ =`).
Send(q, m) == IF RxAlive THEN Append(q, m) ELSE q

Init ==
    /\ fps \in FpsSet
    /\ active_webview = FALSE
    /\ count = 1
    /\ since = 0
    /\ inflight = {}
    /\ chan = <<>>
    /\ exited = FALSE
    /\ encPc = "start"
    /\ pipeline = "Null"
    /\ appsrc = <<>>
    /\ calls = <<>>
    /\ gap = 0
    /\ cap_elapsed = 0
    /\ cap_pending = 0
    /\ cap_done = <<>>
    /\ snapshot_taken = FALSE
    /\ cap_status = "running"

\* Variant: the request is issued without looking at active_webview.
Tick_no_gate(event, dt) ==
    LET now == Min(since + dt, SinceCap)
        issue == now >= frame_duration(fps)
    IN  /\ ~exited
        /\ issue => count < MaxCount /\ Cardinality(inflight) < MaxInflight
        /\ IF issue
           THEN /\ inflight' = inflight \cup {count}
                /\ since' = 0
                /\ gap' = now
                /\ chan' = IF count = EndCount THEN Send(chan, EndMsg) ELSE chan
                /\ count' = count + 1
           ELSE /\ since' = now
                /\ UNCHANGED <<inflight, chan, count, gap>>
        /\ exited' = (event = "CloseRequested")
        /\ active_webview' = (active_webview \/ event = "RedrawRequested")
        /\ UNCHANGED <<capvars, fps, encPc, pipeline, appsrc, calls>>

\* Variant: the end-of-stream marker is sent one request later, after the
\* increment of count.
Tick_marker_late(event, dt) ==
    LET now == Min(since + dt, SinceCap)
        issue == now >= frame_duration(fps) /\ active_webview
    IN  /\ ~exited
        /\ issue => count < MaxCount /\ Cardinality(inflight) < MaxInflight
        /\ IF issue
           THEN /\ inflight' = inflight \cup {count}
                /\ since' = 0
                /\ gap' = now
                /\ chan' = IF count = EndCount + 1 THEN Send(chan, EndMsg) ELSE chan
                /\ count' = count + 1
           ELSE /\ since' = now
                /\ UNCHANGED <<inflight, chan, count, gap>>
        /\ exited' = (event = "CloseRequested")
        /\ active_webview' = (active_webview \/ event = "RedrawRequested")
        /\ UNCHANGED <<capvars, fps, encPc, pipeline, appsrc, calls>>

\* One iteration of the event-loop closure (lines 247-300); dt is the time
\* since the previous iteration.
Tick(event, dt) ==
    LET now == Min(since + dt, SinceCap)
        issue == now >= frame_duration(fps) /\ active_webview
    IN  /\ ~exited
        /\ issue => count < MaxCount /\ Cardinality(inflight) < MaxInflight
        /\ IF issue
           THEN /\ inflight' = inflight \cup {count}
                /\ since' = 0
                /\ gap' = now
                /\ chan' = IF count = EndCount THEN Send(chan, EndMsg) ELSE chan
                /\ count' = count + 1
           ELSE /\ since' = now
                /\ UNCHANGED <<inflight, chan, count, gap>>
        /\ exited' = (event = "CloseRequested")
        /\ active_webview' = (active_webview \/ event = "RedrawRequested")
        /\ UNCHANGED <<capvars, fps, encPc, pipeline, appsrc, calls>>

\* Variant: the callback stamps the frame with the value count has when the
\* callback runs, not the one captured at issuance.
SnapshotCallback_current_count(c, result) ==
    /\ ~exited
    /\ c \in inflight
    /\ inflight' = inflight \ {c}
    /\ chan' = Send(chan, [FrameMsg(result, c, fps) EXCEPT
                              !.timestamp = timestamp_ns(count, fps)])
    /\ UNCHANGED <<capvars, gap, fps, active_webview, count, since, exited,
                   encPc, pipeline, appsrc, calls>>

\* The closure passed to take_snapshot (lines 256-270), run by the render
\* host on the event-loop thread for the request of ordinal c.
SnapshotCallback(c, result) ==
    /\ ~exited
    /\ c \in inflight
    /\ inflight' = inflight \ {c}
    /\ chan' = Send(chan, FrameMsg(result, c, fps))
    /\ UNCHANGED <<capvars, gap, fps, active_webview, count, since, exited,
                   encPc, pipeline, appsrc, calls>>

\* ------------------------------------------------------- PngVideoEncoder
Call(op, ts, res) == [op |-> op, ts |-> ts, res |-> res]

\* start (lines 401-404)
start(sc) ==
    /\ pipeline' = IF sc = "Ok" THEN "Playing" ELSE pipeline
    /\ calls' = Append(calls, Call("start", 0,
                        IF sc = "Ok" THEN "Ok" ELSE "StateChangeError"))
    /\ UNCHANGED appsrc

PushResult(flow) ==
    CASE flow \in {"Ok", "CustomSuccess", "CustomSuccess1", "CustomSuccess2"} -> "Ok"
      [] flow = "Flushing" -> "Pipeline is flushing"
      [] flow = "Eos" -> "End of stream"
      [] OTHER -> "Failed to push buffer"

\* push_png_buffer_with_timestamp (lines 406-431)
push_png_buffer_with_timestamp(png_data, ts, flow) ==
    /\ appsrc' = Append(appsrc, [op |-> "buffer", data |-> png_data, pts |-> ts,
                                 duration |-> (1000000000 \div fps) * 1])
    /\ calls' = Append(calls, Call("push", ts, PushResult(flow)))
    /\ UNCHANGED pipeline

FinishResult(eos, bus, sc) ==
    IF eos # "Ok" THEN "FlowError"
    ELSE IF bus = "Error" THEN "Pipeline error"
    ELSE IF sc # "Ok" THEN "StateChangeError"
    ELSE "Ok"

\* finish (lines 450-467)
finish(eos, bus, sc) ==
    /\ appsrc' = Append(appsrc, [op |-> "eos", data |-> <<>>, pts |-> 0, duration |-> 0])
    /\ pipeline' = IF FinishResult(eos, bus, sc) = "Ok" THEN "Null" ELSE pipeline
    /\ calls' = Append(calls, Call("finish", 0, FinishResult(eos, bus, sc)))

\* ------------------------------------------------ encoder thread, 226-242
\* encoder.start().unwrap()
EncStart(sc) ==
    /\ ~exited
    /\ encPc = "start"
    /\ start(sc)
    /\ encPc' = IF sc = "Ok" THEN "recv" ELSE "panicked"
    /\ UNCHANGED <<capvars, gap, fps, active_webview, count, since, inflight, chan, exited>>

\* Variant: the loop goes on receiving after finish (no `break`).
EncStop_no_break(eos, bus, sc) ==
    /\ ~exited
    /\ encPc = "recv"
    /\ chan # <<>>
    /\ is_empty(Head(chan).png_data) \/ Head(chan).timestamp = 0
    /\ chan' = Tail(chan)
    /\ finish(eos, bus, sc)
    /\ encPc' = IF FinishResult(eos, bus, sc) = "Ok" THEN "recv" ELSE "panicked"
    /\ UNCHANGED <<capvars, gap, fps, active_webview, count, since, inflight, exited>>

\* One iteration of `while let Ok(..) = rx.recv()` that stops the stream.
EncStop(eos, bus, sc) ==
    /\ ~exited
    /\ encPc = "recv"
    /\ chan # <<>>
    /\ is_empty(Head(chan).png_data) \/ Head(chan).timestamp = 0
    /\ chan' = Tail(chan)
    /\ finish(eos, bus, sc)
    /\ encPc' = IF FinishResult(eos, bus, sc) = "Ok" THEN "done" ELSE "panicked"
    /\ UNCHANGED <<capvars, gap, fps, active_webview, count, since, inflight, exited>>

\* One iteration of the loop that pushes a frame.
EncPush(flow) ==
    /\ ~exited
    /\ encPc = "recv"
    /\ chan # <<>>
    /\ ~(is_empty(Head(chan).png_data) \/ Head(chan).timestamp = 0)
    /\ chan' = Tail(chan)
    /\ push_png_buffer_with_timestamp(Head(chan).png_data, Head(chan).timestamp, flow)
    /\ encPc' = IF PushResult(flow) = "Ok" THEN "recv" ELSE "panicked"
    /\ UNCHANGED <<capvars, gap, fps, active_webview, count, since, inflight, exited>>

Next ==
    \/ \E e \in Events, dt \in TimeSteps : Tick(e, dt)
    \/ \E c \in 1..MaxCount, r \in SnapshotResults : SnapshotCallback(c, r)
    \/ \E sc \in StateChangeResults : EncStart(sc)
    \/ \E eos \in EosResults, bus \in BusMessages, sc \in StateChangeResults :
          EncStop(eos, bus, sc)
    \/ \E flow \in FlowResults : EncPush(flow)

Spec == Init /\ [][Next]_vars

\* ------------------------------------- a client of PngVideoEncoder's API
\* The methods are public and take &self: any call order compiles.
ApiStart(sc) ==
    /\ Len(calls) < MaxCalls
    /\ start(sc)
    /\ UNCHANGED <<capvars, gap, fps, active_webview, count, since, inflight, chan, exited, encPc>>

ApiPush(ts, flow) ==
    /\ Len(calls) < MaxCalls
    /\ push_png_buffer_with_timestamp(<<1>>, ts, flow)
    /\ UNCHANGED <<capvars, gap, fps, active_webview, count, since, inflight, chan, exited, encPc>>

ApiFinish(eos, bus, sc) ==
    /\ Len(calls) < MaxCalls
    /\ finish(eos, bus, sc)
    /\ UNCHANGED <<capvars, gap, fps, active_webview, count, since, inflight, chan, exited, encPc>>

EncoderNext ==
    \/ \E sc \in StateChangeResults : ApiStart(sc)
    \/ \E ts \in PtsSet, flow \in FlowResults : ApiPush(ts, flow)
    \/ \E eos \in EosResults, bus \in BusMessages, sc \in StateChangeResults :
          ApiFinish(eos, bus, sc)

EncoderSpec == Init /\ [][EncoderNext]_vars

\* ------------------------- the timestamp of a callback, over the fps range
\* States of record mode in which requests 1..c have been issued, each as
\* soon as it was due, none has resolved, and the encoder thread has started.
OrdinalInit ==
    /\ \E c \in 1..MaxOrdinal :
          /\ fps \in (IF c = 1 THEN FpsRange ELSE FpsEdge)
          /\ count = c + 1
          /\ inflight = 1..c
    /\ active_webview = TRUE
    /\ since = 0
    /\ gap = Min(frame_duration(fps), SinceCap)
    /\ chan = <<>>
    /\ exited = FALSE
    /\ encPc = "recv"
    /\ pipeline = "Playing"
    /\ appsrc = <<>>
    /\ calls = <<Call("start", 0, "Ok")>>
    /\ cap_elapsed = 0
    /\ cap_pending = 0
    /\ cap_done = <<>>
    /\ snapshot_taken = FALSE
    /\ cap_status = "running"

OrdinalNext ==
    \/ \E c \in 1..MaxCount, r \in SnapshotResults : SnapshotCallback(c, r)
    \/ \E eos \in EosResults, bus \in BusMessages, sc \in StateChangeResults :
          EncStop(eos, bus, sc)
    \/ \E flow \in FlowResults : EncPush(flow)

OrdinalSpec == OrdinalInit /\ [][OrdinalNext]_vars

\* ----------------------------------------------- run_capture, 154-201
\* `if now.duration_since(last_frame_time).as_secs() >= 5`
CaptureDelaySecs == 5

ProcessOutcomes == {"saved", "panic"}

\* One iteration of the event-loop closure of run_capture (lines 165-200);
\* last_frame_time is never updated, so cap_elapsed is the time since startup.
CaptureTick(event, dt) ==
    LET now == Min(cap_elapsed + dt, CaptureCap)
        issue == now \div 1000 >= CaptureDelaySecs
    IN  /\ cap_status = "running"
        /\ issue => cap_pending + Len(cap_done) < MaxSnapshots
        /\ cap_elapsed' = now
        /\ cap_pending' = IF issue THEN cap_pending + 1 ELSE cap_pending
        /\ cap_status' = IF event = "CloseRequested" THEN "closed" ELSE "running"
        /\ UNCHANGED <<cap_done, snapshot_taken, recvars>>

\* Variant: process_png_data returns after saving instead of exiting.
CaptureCallback_no_exit(result, outcome) ==
    /\ cap_status = "running"
    /\ cap_pending > 0
    /\ cap_pending' = cap_pending - 1
    /\ snapshot_taken' = TRUE
    /\ IF result = "Err"
       THEN /\ cap_done' = Append(cap_done, "empty")
            /\ UNCHANGED cap_status
       ELSE /\ cap_done' = Append(cap_done, "png")
            /\ cap_status' = IF outcome = "saved" THEN "running" ELSE "panicked"
    /\ UNCHANGED <<cap_elapsed, recvars>>

\* The closure passed to take_snapshot (lines 175-187) with process_png_data
\* (lines 25-37): an empty vector is reported; an image is decoded and saved
\* (both unwrapped) and the process exits with status 1.
CaptureCallback(result, outcome) ==
    /\ cap_status = "running"
    /\ cap_pending > 0
    /\ cap_pending' = cap_pending - 1
    /\ snapshot_taken' = TRUE
    /\ IF result = "Err"
       THEN /\ cap_done' = Append(cap_done, "empty")
            /\ UNCHANGED cap_status
       ELSE /\ cap_done' = Append(cap_done, "png")
            /\ cap_status' = IF outcome = "saved" THEN "exit(1)" ELSE "panicked"
    /\ UNCHANGED <<cap_elapsed, recvars>>

CaptureNext ==
    \/ \E e \in Events, dt \in CaptureSteps : CaptureTick(e, dt)
    \/ \E r \in SnapshotResults, o \in ProcessOutcomes : CaptureCallback(r, o)

CaptureSpec == Init /\ [][CaptureNext]_vars

TypeOK ==
    /\ fps \in FpsSet
    /\ active_webview \in BOOLEAN
    /\ count \in 1..MaxCount
    /\ since \in 0..SinceCap
    /\ inflight \subseteq 1..MaxCount
    /\ exited \in BOOLEAN
    /\ encPc \in {"start", "recv", "done", "panicked"}
    /\ pipeline \in {"Null", "Playing"}

\* ------------------------------------------------------------ properties
\* The buffers handed to appsrc.push_buffer, in order.
Buffers == SelectSeq(appsrc, LAMBDA e : e.op = "buffer")
\* The end_of_stream signals given to appsrc.
EosSignals == SelectSeq(appsrc, LAMBDA e : e.op = "eos")
CallsOf(op) == {i \in DOMAIN calls : calls[i].op = op}
\* The scheduler has executed the send of line 280.
MarkerSent == count > EndCount
\* Every request issued so far is pending or has delivered its image.
AllSucceeded ==
    \A c \in 1..(count - 1) :
        \/ c \in inflight
        \/ \E i \in DOMAIN chan : chan[i].png_data = <<c>>
        \/ \E i \in DOMAIN Buffers : Buffers[i].data = <<c>>
\* i / f seconds in nanoseconds, rounded to the nearest nanosecond.
ExactPts(i, f) ==
    i * (1000000000 \div f) + ((2 * i * (1000000000 % f) + f) \div (2 * f))

\* C1: at most one capture request is outstanding at any time.
C1_SingleInFlight == Cardinality(inflight) <= 1

\* C2: the presentation timestamps pushed to the encoder form a strictly
\* increasing sequence.
C2_PushedPtsIncreasing ==
    \A i \in 1..(Len(Buffers) - 1) : Buffers[i].pts < Buffers[i + 1].pts

\* C3: a failed capture (empty payload) does not finalize the encoder: the
\* encoder thread calls finish only when the message it received is the
\* scheduler's end-of-stream marker.
C3_FailedCaptureDoesNotFinalize ==
    [][(Len(calls') = Len(calls) + 1 /\ calls'[Len(calls')].op = "finish")
          => (chan # <<>> /\ Head(chan) = EndMsg)]_vars

\* C4: the end-of-stream marker is put on the channel only after every
\* request in flight has resolved, and no captured frame is enqueued
\* behind the marker.
C4_MarkerAfterInflight ==
    /\ MarkerSent => \A c \in inflight : c > EndCount
    /\ \A i \in DOMAIN chan : chan[i] = EndMsg => i = Len(chan)

FirstFiveAt30 == <<33333333, 66666666, 99999999, 133333332, 166666665>>

C6_EncoderLifecycle ==
    /\ Cardinality(CallsOf("start")) <= 1
    /\ Cardinality(CallsOf("finish")) <= 1
    /\ \A f \in CallsOf("finish") : \E s \in CallsOf("start") : s < f
    /\ \A p \in CallsOf("push") :
          /\ \E s \in CallsOf("start") : s < p
          /\ \A f \in CallsOf("finish") : p < f
    /\ pipeline = "Playing" =>
          (CallsOf("start") # {} /\ \A f \in CallsOf("finish") : calls[f].res # "Ok")

\* The session was started, fed a frame and finalized, and a frame is
\* still waiting on the channel.
C6_Witness ==
    /\ CallsOf("push") # {}
    /\ \E f \in CallsOf("finish") : calls[f].res = "Ok"
    /\ pipeline = "Null"
    /\ chan # <<>>

\* C7: when the process exits through a close request, the encoder thread
\* has been joined: finish() was called exactly once and has completed.
C7_JoinBeforeExit ==
    exited =>
        /\ encPc = "done"
        /\ Cardinality(CallsOf("finish")) = 1
        /\ \A f \in CallsOf("finish") : calls[f].res = "Ok"

\* C8: a second finish() on the same session returns AlreadyFinalized and
\* does not signal end-of-stream to the backend again.
C8_SecondFinishRejected ==
    \A j \in CallsOf("finish") :
        (\E i \in CallsOf("finish") : i < j) =>
            /\ calls[j].res = "AlreadyFinalized"
            /\ Len(EosSignals) = 1

\* C9: a push whose pts is not strictly greater than the pts of the last
\* push fails with NonMonotonicTimestamp and forwards nothing to the
\* backend.
C9_NonMonotonicPushRejected ==
    /\ \A j \in CallsOf("push") : \A i \in CallsOf("push") :
          (i < j /\ (\A m \in CallsOf("push") : m < j => m <= i)
                 /\ calls[j].ts <= calls[i].ts)
              => calls[j].res = "NonMonotonicTimestamp"
    /\ \A i \in 1..(Len(Buffers) - 1) : Buffers[i].pts < Buffers[i + 1].pts

\* C10: once the end-of-stream marker has been sent, no further capture
\* request is issued.
C10_NoRequestAfterMarker ==
    [][MarkerSent => (count' = count /\ inflight' \subseteq inflight)]_vars

\* The requests whose callback has run.
Resolved == (1..(count - 1)) \ inflight

\* C11: the pts of a captured frame is determined by the ordinal of its
\* request alone, pts = k * floor(1e9 / fps) for request k, whatever the
\* order in which callbacks complete and whether other captures failed:
\* pushed frames compare by pts exactly as their requests compare by
\* ordinal, and a failed capture carries the pts of a resolved request.
C11_PtsDependsOnOrdinalOnly ==
    /\ \A i \in DOMAIN chan : \A k \in 1..MaxCount :
          chan[i].png_data = <<k>> => chan[i].timestamp = k * (1000000000 \div fps)
    /\ \A i \in DOMAIN chan :
          (is_empty(chan[i].png_data) /\ chan[i] # EndMsg) =>
              \E k \in Resolved : chan[i].timestamp = k * (1000000000 \div fps)
    /\ \A i, j \in DOMAIN Buffers :
          (Buffers[i].data[1] < Buffers[j].data[1]) <=> (Buffers[i].pts < Buffers[j].pts)

\* Request 2 completed before request 1, whose capture failed: the frame
\* of request 2 was pushed first and the failed capture heads the channel.
C11_Witness ==
    /\ Len(Buffers) >= 1
    /\ Buffers[1].data = <<2>>
    /\ chan # <<>>
    /\ is_empty(Head(chan).png_data)
    /\ Head(chan).timestamp = 1 * (1000000000 \div fps)

\* C12: every frame handed to the channel is consumed exactly once by the
\* encoder thread: once the thread has finished no frame is left on the
\* channel, and no frame was pushed twice.
C12_ConsumedExactlyOnce ==
    /\ encPc = "done" => \A i \in DOMAIN chan : chan[i] = EndMsg
    /\ \A i, j \in DOMAIN Buffers : Buffers[i].data = Buffers[j].data => i = j

\* C13: no capture request is issued before a RedrawRequested event has
\* set active_webview, however much time has elapsed.
C13_NoRequestBeforeLoad ==
    [][(count' # count \/ ~(inflight' \subseteq inflight)) => active_webview]_vars

\* More than frame_duration has elapsed, the surface has not signalled, and
\* no request has been issued.
C13_Witness ==
    /\ ~active_webview
    /\ since > 0
    /\ since >= frame_duration(fps)
    /\ count = 1
    /\ inflight = {}

\* C14: two consecutive capture-request issuances are separated by at
\* least 1 s / fps (gap is in ms, so gap / 1000 >= 1 / fps).
C14_IssuanceSpacing == count > 2 => gap * fps >= 1000

\* C15: once the end-of-stream marker is on the channel the encoder thread
\* comes to call finish(), and after finish() it receives no more: a run
\* that has ended has no marker left on the channel, and a thread that
\* called finish() is not in its receive loop.
C15_MarkerLeadsToFinish ==
    /\ exited => \A i \in DOMAIN chan : chan[i] # EndMsg
    /\ CallsOf("finish") # {} => encPc # "recv"

\* C17: at most EndCount - 1 frames (399 in the program) are pushed to the
\* encoder, and the frame of request EndCount or of a later request is
\* never pushed.
C17_AtMostEndCountMinusOneFrames ==
    /\ Len(Buffers) <= EndCount - 1
    /\ \A i \in DOMAIN Buffers : \A k \in EndCount..MaxCount : Buffers[i].data # <<k>>

\* The frames of all requests before EndCount were pushed, the encoder has
\* finished, and the frame of request EndCount lies unread on the channel.
C17_Witness ==
    /\ Len(Buffers) = EndCount - 1
    /\ encPc = "done"
    /\ \E i \in DOMAIN chan : chan[i].png_data = <<EndCount>>

\* C16: a message sent by a snapshot callback carries a timestamp greater
\* than 0 for every fps in 1..65535 and every request ordinal, and the
\* encoder thread calls finish only on a message with an empty payload.
C16_FrameIsNeverTheMarker ==
    [][/\ \A i \in DOMAIN chan' : chan'[i].timestamp > 0
       /\ (Len(calls') = Len(calls) + 1 /\ calls'[Len(calls')].op = "finish")
             => is_empty(Head(chan).png_data)]_vars

\* At the largest fps the frame of request 3 is on the channel with
\* timestamp 3 * floor(1e9 / 65535).
C16_Witness ==
    /\ fps = 65535
    /\ \E i \in DOMAIN chan : chan[i].png_data = <<3>> /\ chan[i].timestamp = 45777

\* The snapshots of capture mode that delivered an image.
CapImages == {i \in DOMAIN cap_done : cap_done[i] = "png"}

\* C18: in capture mode no snapshot request is issued before 5 s have
\* elapsed since startup; the process ends in the first callback that
\* delivers a non-empty payload, so at most one image is processed; an
\* empty snapshot does not end the process.
C18_CaptureOnceAfterDelay ==
    /\ (cap_pending + Len(cap_done) > 0) => cap_elapsed >= 5000
    /\ Cardinality(CapImages) <= 1
    /\ \A i \in CapImages : i = Len(cap_done)
    /\ (CapImages # {}) <=> (cap_status \in {"exit(1)", "panicked"})

\* A failed snapshot was processed, the next one was saved and ended the
\* process, and a further request never got its callback.
C18_Witness ==
    /\ cap_done = <<"empty", "png">>
    /\ cap_status = "exit(1)"
    /\ cap_pending >= 1
====
